---------------------------- MODULE Spec2Model ----------------------------
(***************************************************************************)
(* GlobalTree chat backend (server.js, api/*.js): the reply-decision       *)
(* pipeline of POST /api/chat, the lead handoff of POST /api/handoff and   *)
(* the two JSON files they keep (conversations.json, leads.json).          *)
(*                                                                         *)
(* Text is modelled as JavaScript strings are: a sequence of UTF-16 code   *)
(* units.  An ASCII unit is written as itself ("a"); the units outside     *)
(* ASCII that the sources use have names: BULLET (U+2022), EMDASH          *)
(* (U+2014), HI_SURR LO_SURR (U+D83D U+DC49, the pointing hand), KELVIN    *)
(* (U+212A), NBSP (U+00A0).                                                *)
(***************************************************************************)
EXTENDS Integers, Sequences, FiniteSets, TLC

VARIABLES
  req,          \* per request slot: the handler's position and locals
  fs,           \* the two JSON files on disk
  geminiCalls,  \* number of sendMessage calls made on the generative client
  intact,       \* history: conversations.json as of its last completed write
  started,      \* history: number of requests received so far
  greeted,      \* history: the sessions that have sent a greeting
  pure          \* the input and outputs of the pure-function specifications

vars == <<req, fs, geminiCalls, intact, started, greeted, pure>>

(***************************************************************************)
(* Characters                                                              *)
(***************************************************************************)
UpperCase ==
  <<"A","B","C","D","E","F","G","H","I","J","K","L","M",
    "N","O","P","Q","R","S","T","U","V","W","X","Y","Z">>

LowerCase ==
  <<"a","b","c","d","e","f","g","h","i","j","k","l","m",
    "n","o","p","q","r","s","t","u","v","w","x","y","z">>

Digits == {"0","1","2","3","4","5","6","7","8","9"}

Range(f) == { f[i] : i \in DOMAIN f }

UpperToLower == [c \in Range(UpperCase) |->
                   LowerCase[CHOOSE i \in 1..26 : UpperCase[i] = c]]

LowerToUpper == [c \in Range(LowerCase) |->
                   UpperCase[CHOOSE i \in 1..26 : LowerCase[i] = c]]

\* String.prototype.toLowerCase on one code unit.  The Kelvin sign lowers to
\* an ASCII k.
toLowerCaseUnit(c) ==
  IF c \in DOMAIN UpperToLower THEN UpperToLower[c]
  ELSE IF c = "KELVIN" THEN "k" ELSE c

\* Canonicalize of a RegExp with the i flag and without the u flag: upper
\* case, except that a unit outside ASCII never folds onto an ASCII one.
Canonicalize(c) ==
  IF c \in DOMAIN LowerToUpper THEN LowerToUpper[c] ELSE c

\* \w of a RegExp
IsWordChar(c) ==
  c \in Range(UpperCase) \cup Range(LowerCase) \cup Digits \cup {"_"}

\* the units String.prototype.trim removes
IsWhiteSpace(c) == c \in {" ", "\t", "\n", "\r", "\f", "NBSP"}

(***************************************************************************)
(* Strings                                                                 *)
(***************************************************************************)
\* null / undefined
NULL == <<"NULL">>

\* !s for a string or null
Falsy(s) == s = NULL \/ s = <<>>

toLowerCase(t) == [i \in 1..Len(t) |-> toLowerCaseUnit(t[i])]

RECURSIVE trimEnd(_)
trimEnd(t) ==
  IF t # <<>> /\ IsWhiteSpace(t[Len(t)]) THEN trimEnd(SubSeq(t, 1, Len(t) - 1))
  ELSE t

RECURSIVE trimStart(_)
trimStart(t) ==
  IF t # <<>> /\ IsWhiteSpace(t[1]) THEN trimStart(Tail(t)) ELSE t

trim(t) == trimEnd(trimStart(t))

\* t.slice(0, n) for n >= 0
slice0(t, n) == SubSeq(t, 1, IF n < Len(t) THEN n ELSE Len(t))

\* the literal w at index i of t (1-based); ci: under the i flag
MatchAt(t, w, i, ci) ==
  /\ i + Len(w) - 1 <= Len(t)
  /\ \A k \in 1..Len(w) :
       IF ci THEN Canonicalize(t[i + k - 1]) = Canonicalize(w[k])
       ELSE t[i + k - 1] = w[k]

WordAt(t, p) == p >= 1 /\ p <= Len(t) /\ IsWordChar(t[p])

\* the assertion \b just before index p of t
Boundary(t, p) == WordAt(t, p - 1) # WordAt(t, p)

\* /\b(w1|w2|...)\b/.test(t)
TestWords(t, words, ci) ==
  \E i \in 1..Len(t) : \E w \in words :
    Boundary(t, i) /\ MatchAt(t, w, i, ci) /\ Boundary(t, i + Len(w))

\* /w/.test(t), or t.includes(w) when not ci
TestLiteral(t, w, ci) == \E i \in 1..Len(t) : MatchAt(t, w, i, ci)

includes(t, w) == TestLiteral(t, w, FALSE)

\* t.split(/\n/)
RECURSIVE splitFrom(_, _)
splitFrom(t, from) ==
  LET nl == { i \in from..Len(t) : t[i] = "\n" } IN
  IF nl = {} THEN << SubSeq(t, from, Len(t)) >>
  ELSE LET j == CHOOSE i \in nl : \A k \in nl : i <= k
       IN  << SubSeq(t, from, j - 1) >> \o splitFrom(t, j + 1)

split(t) == splitFrom(t, 1)

\* lines.join("\n")
RECURSIVE join(_)
join(lines) ==
  IF lines = <<>> THEN <<>>
  ELSE IF Len(lines) = 1 THEN lines[1]
  ELSE lines[1] \o <<"\n">> \o join(Tail(lines))

\* lines.filter(Boolean): the empty string is the only falsy string
filterBoolean(lines) == SelectSeq(lines, LAMBDA l : l # <<>>)

(***************************************************************************)
(* Literals of the sources                                                 *)
(***************************************************************************)
\* server.js:63  /\b(hi|hello|hlo|hey|namaste|kaise ho|how are you)\b/
GreetingWords ==
  { <<"h","i">>,
    <<"h","e","l","l","o">>,
    <<"h","l","o">>,
    <<"h","e","y">>,
    <<"n","a","m","a","s","t","e">>,
    <<"k","a","i","s","e"," ","h","o">>,
    <<"h","o","w"," ","a","r","e"," ","y","o","u">> }

\* server.js:67
TopUniversitiesWords ==
  { <<"t","o","p"," ","u","n","i","v","e","r","s","i","t","i","e","s">>,
    <<"b","e","s","t"," ","u","n","i","v","e","r","s","i","t","i","e","s">>,
    <<"t","o","p"," ","c","o","l","l","e","g","e","s">>,
    <<"t","o","p"," ","u","n","i","v">>,
    <<"u","n","i","v","e","r","s","i","t","i","e","s"," ","i","n">>,
    <<"b","e","s","t"," ","f","o","r">> }

\* server.js:71
ScholarshipsWords ==
  { <<"s","c","h","o","l","a","r","s","h","i","p">>,
    <<"s","c","h","o","l","a","r","s","h","i","p","s">>,
    <<"f","u","n","d","i","n","g">>,
    <<"g","r","a","n","t","s">>,
    <<"f","i","n","a","n","c","i","a","l"," ","a","i","d">> }

\* server.js:75
VisaProcessWords ==
  { <<"v","i","s","a"," ","p","r","o","c","e","s","s">>,
    <<"v","i","s","a">>,
    <<"a","p","p","l","y"," ","f","o","r"," ","v","i","s","a">>,
    <<"v","f","s">>,
    <<"i","m","m","i","g","r","a","t","i","o","n">> }

\* server.js:79
BookConsultWords ==
  { <<"b","o","o","k">>,
    <<"c","o","n","s","u","l","t">>,
    <<"c","o","n","s","u","l","t","a","t","i","o","n">>,
    <<"b","o","o","k"," ","a"," ","c","o","n","s","u","l","t","a","t","i","o","n">>,
    <<"r","e","q","u","e","s","t"," ","c","a","l","l","b","a","c","k">>,
    <<"r","e","q","u","e","s","t"," ","c","o","n","s","u","l","t">> }

\* server.js:174
BannedWords ==
  { <<"m","e","d","i","c","a","l">>,
    <<"l","e","g","a","l">>,
    <<"f","i","n","a","n","c","i","a","l">>,
    <<"t","h","e","r","a","p","y">>,
    <<"d","o","c","t","o","r">>,
    <<"l","a","w","y","e","r">>,
    <<"b","u","s","i","n","e","s","s"," ","s","t","r","a","t","e","g","y">> }

\* api/handoff.js:185
LeadWords ==
  { <<"b","o","o","k">>,
    <<"c","o","n","s","u","l","t">>,
    <<"c","o","n","s","u","l","t","a","t","i","o","n">>,
    <<"r","e","q","u","e","s","t"," ","c","a","l","l","b","a","c","k">>,
    <<"r","e","q","u","e","s","t"," ","c","o","n","s","u","l","t">> }

\* api/handoff.js:186
VisaWords ==
  { <<"v","i","s","a">>,
    <<"v","f","s">>,
    <<"i","m","m","i","g","r","a","t","i","o","n">>,
    <<"a","p","p","l","y"," ","f","o","r"," ","v","i","s","a">> }

\* api/handoff.js:258
BannedWordsApi ==
  { <<"m","e","d","i","c","a","l">>,
    <<"l","e","g","a","l">>,
    <<"f","i","n","a","n","c","i","a","l">>,
    <<"t","h","e","r","a","p","y">>,
    <<"d","o","c","t","o","r">>,
    <<"l","a","w","y","e","r">>,
    <<"b","u","s","i","n","e","s","s"," ","s","t","r","a","t","e","g","y">> }

\* server.js:98-102
CANNED_global_top ==
  << <<"BULLET"," ","M","a","s","s","a","c","h","u","s","e","t","t","s"," ","I","n","s","t",
       "i","t","u","t","e"," ","o","f"," ","T","e","c","h","n","o","l","o","g","y"," ","(","M",
       "I","T",")">>,
     <<"BULLET"," ","S","t","a","n","f","o","r","d"," ","U","n","i","v","e","r","s","i","t","y">>,
     <<"BULLET"," ","H","a","r","v","a","r","d"," ","U","n","i","v","e","r","s","i","t","y">>,
     <<"BULLET"," ","U","n","i","v","e","r","s","i","t","y"," ","o","f"," ","C","a","m","b",
       "r","i","d","g","e">>,
     <<"BULLET"," ","U","n","i","v","e","r","s","i","t","y"," ","o","f"," ","O","x","f","o",
       "r","d">> >>

\* server.js:105-108
CANNED_canada ==
  << <<"BULLET"," ","U","n","i","v","e","r","s","i","t","y"," ","o","f"," ","T","o","r","o",
       "n","t","o">>,
     <<"BULLET"," ","U","n","i","v","e","r","s","i","t","y"," ","o","f"," ","B","r","i","t",
       "i","s","h"," ","C","o","l","u","m","b","i","a">>,
     <<"BULLET"," ","M","c","G","i","l","l"," ","U","n","i","v","e","r","s","i","t","y">>,
     <<"BULLET"," ","U","n","i","v","e","r","s","i","t","y"," ","o","f"," ","W","a","t","e",
       "r","l","o","o">> >>

\* server.js:111-114
CANNED_usa ==
  << <<"BULLET"," ","M","I","T">>,
     <<"BULLET"," ","S","t","a","n","f","o","r","d"," ","U","n","i","v","e","r","s","i","t","y">>,
     <<"BULLET"," ","H","a","r","v","a","r","d"," ","U","n","i","v","e","r","s","i","t","y">>,
     <<"BULLET"," ","U","C"," ","B","e","r","k","e","l","e","y">> >>

\* server.js:117-120
CANNED_uk ==
  << <<"BULLET"," ","U","n","i","v","e","r","s","i","t","y"," ","o","f"," ","O","x","f","o",
       "r","d">>,
     <<"BULLET"," ","U","n","i","v","e","r","s","i","t","y"," ","o","f"," ","C","a","m","b",
       "r","i","d","g","e">>,
     <<"BULLET"," ","I","m","p","e","r","i","a","l"," ","C","o","l","l","e","g","e"," ","L",
       "o","n","d","o","n">>,
     <<"BULLET"," ","U","C","L">> >>

\* server.js:123-126
CANNED_australia ==
  << <<"BULLET"," ","U","n","i","v","e","r","s","i","t","y"," ","o","f"," ","M","e","l","b",
       "o","u","r","n","e">>,
     <<"BULLET"," ","U","n","i","v","e","r","s","i","t","y"," ","o","f"," ","S","y","d","n",
       "e","y">>,
     <<"BULLET"," ","A","u","s","t","r","a","l","i","a","n"," ","N","a","t","i","o","n","a",
       "l"," ","U","n","i","v","e","r","s","i","t","y"," ","(","A","N","U",")">>,
     <<"BULLET"," ","U","N","S","W"," ","S","y","d","n","e","y">> >>

\* server.js:129-132
CANNED_scholarships_short ==
  << <<"BULLET"," ","G","o","v","e","r","n","m","e","n","t"," ","s","c","h","o","l","a","r",
       "s","h","i","p","s"," ","(","e",".","g",".",","," ","F","u","l","b","r","i","g","h","t",
       ","," ","C","h","e","v","e","n","i","n","g",","," ","A","u","s","t","r","a","l","i","a",
       " ","A","w","a","r","d","s",")">>,
     <<"BULLET"," ","U","n","i","v","e","r","s","i","t","y","-","s","p","e","c","i","f","i",
       "c"," ","s","c","h","o","l","a","r","s","h","i","p","s"," ","(","m","e","r","i","t","/",
       "n","e","e","d","-","b","a","s","e","d",")">>,
     <<"BULLET"," ","C","o","u","n","t","r","y","-","l","e","v","e","l"," ","e","n","t","r",
       "a","n","c","e"," ","s","c","h","o","l","a","r","s","h","i","p","s"," ","(","p","r","o",
       "v","i","n","c","i","a","l","/","s","t","a","t","e"," ","s","c","h","e","m","e","s",")">>,
     <<"BULLET"," ","E","x","t","e","r","n","a","l"," ","f","u","n","d","i","n","g"," ","b",
       "o","d","i","e","s"," ","a","n","d"," ","f","o","u","n","d","a","t","i","o","n","s">> >>

\* server.js:135-137
CANNED_visa_process_short ==
  << <<"1","."," ","C","h","e","c","k"," ","v","i","s","a"," ","c","a","t","e","g","o","r","y",
       " ","&"," ","e","l","i","g","i","b","i","l","i","t","y"," ","o","n"," ","o","f","f","i",
       "c","i","a","l"," ","c","o","n","s","u","l","a","t","e"," ","s","i","t","e",".">>,
     <<"2","."," ","P","r","e","p","a","r","e"," ","d","o","c","u","m","e","n","t","s"," ","(",
       "p","a","s","s","p","o","r","t",","," ","a","d","m","i","s","s","i","o","n"," ","l","e",
       "t","t","e","r",","," ","f","i","n","a","n","c","i","a","l","s",","," ","b","i","o","m",
       "e","t","r","i","c","s",")",".">>,
     <<"3","."," ","B","o","o","k"," ","a","p","p","o","i","n","t","m","e","n","t"," ","/"," ",
       "p","a","y"," ","f","e","e","s"," ","/"," ","a","t","t","e","n","d"," ","b","i","o","m",
       "e","t","r","i","c","s"," ","&"," ","w","a","i","t"," ","f","o","r"," ","d","e","c","i",
       "s","i","o","n",".">> >>

\* server.js:214
TopUniversitiesCta ==
  <<"\n","\n","HI_SURR","LO_SURR"," ","F","o","r"," ","p","e","r","s","o","n","a","l","i","s",
    "e","d"," ","h","e","l","p"," ","a","n","d"," ","e","l","i","g","i","b","i","l","i","t","y",
    " ","c","h","e","c","k","s",","," ","b","o","o","k"," ","a"," ","f","r","e","e"," ","c","o",
    "n","s","u","l","t","a","t","i","o","n"," ","w","i","t","h"," ","G","l","o","b","a","l","T",
    "r","e","e"," ","(","w","e","'","l","l"," ","n","e","e","d"," ","n","a","m","e",","," ","e",
    "m","a","i","l",","," ","p","h","o","n","e",")",".">>

\* server.js:220
ScholarshipsCta ==
  <<"\n","\n","HI_SURR","LO_SURR"," ","F","o","r"," ","p","e","r","s","o","n","a","l","i","s",
    "e","d"," ","s","c","h","o","l","a","r","s","h","i","p"," ","m","a","t","c","h","i","n","g",
    " ","a","n","d"," ","d","e","a","d","l","i","n","e","s",","," ","b","o","o","k"," ","a"," ",
    "f","r","e","e"," ","c","o","n","s","u","l","t","a","t","i","o","n"," ","w","i","t","h"," ",
    "G","l","o","b","a","l","T","r","e","e"," ","(","n","a","m","e",","," ","e","m","a","i","l",
    ","," ","p","h","o","n","e",")",".">>

\* server.js:226
VisaCta ==
  <<"\n","\n","HI_SURR","LO_SURR"," ","F","o","r"," ","a"," ","s","t","e","p","-","b","y","-",
    "s","t","e","p"," ","a","p","p","l","i","c","a","t","i","o","n"," ","c","h","e","c","k","l",
    "i","s","t"," ","a","n","d"," ","t","i","m","e","l","i","n","e",","," ","b","o","o","k"," ",
    "a"," ","f","r","e","e"," ","c","o","n","s","u","l","t","a","t","i","o","n"," ","w","i","t",
    "h"," ","G","l","o","b","a","l","T","r","e","e"," ","(","n","a","m","e",","," ","e","m","a",
    "i","l",","," ","p","h","o","n","e",")",".">>

\* server.js:232 (the same literal at lines 177 and 249)
bookingPrompt ==
  <<"G","r","e","a","t"," ","EMDASH"," ","t","o"," ","b","o","o","k"," ","a"," ","f","r","e",
    "e"," ","c","o","n","s","u","l","t","a","t","i","o","n"," ","p","l","e","a","s","e"," ","s",
    "h","a","r","e",":"," ","1",")"," ","f","u","l","l"," ","n","a","m","e",","," ","2",")"," ",
    "e","m","a","i","l",","," ","3",")"," ","p","h","o","n","e"," ","n","u","m","b","e","r",".",
    " ","A"," ","G","l","o","b","a","l","T","r","e","e"," ","c","o","u","n","s","e","l","o","r",
    " ","w","i","l","l"," ","c","o","n","t","a","c","t"," ","y","o","u"," ","w","i","t","h","i",
    "n"," ","2","4"," ","h","o","u","r","s",".">>

\* api/handoff.js:259 (the sanitizer of the serverless chat variant)
bookingPromptApi ==
  <<"G","r","e","a","t"," ","EMDASH"," ","t","o"," ","b","o","o","k"," ","a"," ","f","r","e",
    "e"," ","c","o","n","s","u","l","t","a","t","i","o","n"," ","p","l","e","a","s","e"," ","s",
    "h","a","r","e",":"," ","1",")"," ","f","u","l","l"," ","n","a","m","e",","," ","2",")"," ",
    "e","m","a","i","l",","," ","3",")"," ","p","h","o","n","e"," ","n","u","m","b","e","r",".">>

\* server.js:203
short ==
  <<"N","a","m","a","s","t","e"," ","EMDASH"," ","I","'","m"," ","G","l","o","b","a","l","T",
    "r","e","e","'","s"," ","a","s","s","i","s","t","a","n","t","."," ","H","o","w"," ","c","a",
    "n"," ","I"," ","h","e","l","p"," ","w","i","t","h"," ","y","o","u","r"," ","s","t","u","d",
    "y","-","a","b","r","o","a","d"," ","q","u","e","s","t","i","o","n","?">>

\* server.js:261
ack ==
  <<"I","'","v","e"," ","a","l","r","e","a","d","y"," ","s","h","a","r","e","d"," ","t","h","a",
    "t"," ","EMDASH"," ","w","o","u","l","d"," ","y","o","u"," ","l","i","k","e"," ","h","e",
    "l","p"," ","b","o","o","k","i","n","g"," ","a"," ","c","o","n","s","u","l","t","a","t","i",
    "o","n","?">>

\* server.js:271
TroubleReply ==
  <<"S","o","r","r","y",","," ","I","'","m"," ","h","a","v","i","n","g"," ","t","r","o","u","b",
    "l","e"," ","c","o","n","n","e","c","t","i","n","g"," ","t","o"," ","t","h","e"," ","s","e",
    "r","v","i","c","e",".">>

\* server.js:185
DetailsSuffix ==
  <<"\n","\n","F","o","r"," ","f","u","l","l"," ","d","e","t","a","i","l","s",","," ","p","l",
    "e","a","s","e"," ","b","o","o","k"," ","a"," ","f","r","e","e"," ","c","o","n","s","u","l",
    "t","a","t","i","o","n"," ","w","i","t","h"," ","G","l","o","b","a","l","T","r","e","e",".">>

\* server.js:281
HandoffPrefix ==
  <<"H","a","n","d","o","f","f"," ","r","e","q","u","e","s","t","e","d",":"," ">>

\* server.js:202  /globaltree/i
globaltree ==
  <<"g","l","o","b","a","l","t","r","e","e">>

(***************************************************************************)
(* Intent checks (server.js:60-80)                                         *)
(***************************************************************************)
isGreeting(text) ==
  IF Falsy(text) THEN FALSE
  ELSE TestWords(toLowerCase(text), GreetingWords, FALSE)

isTopUniversities(text) ==
  IF Falsy(text) THEN FALSE ELSE TestWords(text, TopUniversitiesWords, TRUE)

isScholarships_NoFunding(text) ==
  IF Falsy(text) THEN FALSE
  ELSE TestWords(text, ScholarshipsWords \ {<<"f","u","n","d","i","n","g">>}, TRUE)

isScholarships(text) ==
  IF Falsy(text) THEN FALSE ELSE TestWords(text, ScholarshipsWords, TRUE)

isVisaProcess(text) ==
  IF Falsy(text) THEN FALSE ELSE TestWords(text, VisaProcessWords, TRUE)

isBookConsult(text) ==
  IF Falsy(text) THEN FALSE ELSE TestWords(text, BookConsultWords, TRUE)

\* api/handoff.js:182-188, the only definition of detectIntent in the
\* repository.  Scores are in hundredths (0.95 is 95).
detectIntent(text) ==
  IF Falsy(text) THEN [intent |-> "unknown", score |-> 0]
  ELSE LET t == toLowerCase(text) IN
       IF TestWords(t, LeadWords, FALSE) THEN [intent |-> "lead", score |-> 95]
       ELSE IF TestWords(t, VisaWords, FALSE) THEN [intent |-> "visa", score |-> 90]
       ELSE [intent |-> "general", score |-> 30]

(***************************************************************************)
(* Country detector and canned lists (server.js:83-139)                    *)
(***************************************************************************)
detectCountry(text) ==
  IF Falsy(text) THEN "null"
  ELSE LET t == toLowerCase(text) IN
       IF includes(t, <<"c","a","n","a","d","a">>) THEN "canada"
       ELSE IF \/ includes(t, <<"u","s","a">>)
               \/ includes(t, <<"u","n","i","t","e","d"," ","s","t","a","t","e","s">>)
               \/ includes(t, <<"u","s">>) THEN "usa"
       ELSE IF \/ includes(t, <<"u","k">>)
               \/ includes(t, <<"u","n","i","t","e","d"," ","k","i","n","g","d","o","m">>)
               \/ includes(t, <<"b","r","i","t","a","i","n">>) THEN "uk"
       ELSE IF includes(t, <<"a","u","s","t","r","a","l","i","a">>) THEN "australia"
       ELSE IF includes(t, <<"s","i","n","g","a","p","o","r","e">>) THEN "singapore"
       ELSE IF includes(t, <<"g","e","r","m","a","n","y">>) THEN "germany"
       ELSE "null"

CANNED ==
  [ global_top         |-> CANNED_global_top,
    canada             |-> CANNED_canada,
    usa                |-> CANNED_usa,
    uk                 |-> CANNED_uk,
    australia          |-> CANNED_australia,
    scholarships_short |-> CANNED_scholarships_short,
    visa_process_short |-> CANNED_visa_process_short ]

\* server.js:212-214
TopUniversitiesReply(text) ==
  LET country == detectCountry(text)
      list    == IF country # "null" /\ country \in DOMAIN CANNED
                 THEN CANNED[country] ELSE CANNED.global_top
  IN  join(list) \o TopUniversitiesCta

\* server.js:220
ScholarshipsReply == join(CANNED.scholarships_short) \o ScholarshipsCta

\* server.js:226
VisaReply == join(CANNED.visa_process_short) \o VisaCta

(***************************************************************************)
(* Text extraction (server.js:142-168).  A response of the client is       *)
(* null or an object [text, outputText, parts]: its own text and           *)
(* outputText properties (NULL when absent or not a string) and, in the    *)
(* order the depth-first search meets them, the strings below its other    *)
(* properties.                                                             *)
(***************************************************************************)
NullResponse == [null |-> TRUE]

StringsOf(resp) ==
  (IF resp.text = NULL THEN <<>> ELSE <<resp.text>>)
    \o (IF resp.outputText = NULL THEN <<>> ELSE <<resp.outputText>>)
    \o resp.parts

findFirstText(resp, minLen) ==
  LET ss   == StringsOf(resp)
      min  == IF minLen = 0 THEN 1 ELSE minLen
      hits == { i \in 1..Len(ss) : Len(trim(ss[i])) >= min }
  IN  IF hits = {} THEN NULL
      ELSE trim(ss[CHOOSE i \in hits : \A k \in hits : i <= k])

MinLenLong == 8

MinLenAny == 1

extractTextFromGeminiResponse(resp) ==
  IF resp = NullResponse THEN NULL
  ELSE IF resp.text # NULL /\ trim(resp.text) # <<>> THEN trim(resp.text)
  ELSE IF resp.outputText # NULL /\ trim(resp.outputText) # <<>>
       THEN trim(resp.outputText)
  ELSE IF findFirstText(resp, MinLenLong) # NULL THEN findFirstText(resp, MinLenLong)
  ELSE findFirstText(resp, MinLenAny)

(***************************************************************************)
(* Sanitiser (server.js:171-188; api/handoff.js:256-262)                   *)
(***************************************************************************)
MaxReplyLen == 700

MaxLines == 4

sanitizeReply(reply) ==
  IF Falsy(reply) THEN reply
  ELSE IF TestWords(reply, BannedWords, TRUE) THEN bookingPrompt
  ELSE IF Len(reply) > MaxReplyLen
       THEN LET lines == filterBoolean(split(reply))
                out   == join(slice0(lines, MaxLines))
                cut   == IF Len(out) > MaxReplyLen THEN slice0(out, MaxReplyLen) ELSE out
            IN  trim(cut) \o DetailsSuffix
  ELSE trim(reply)

\* the sanitiser of the serverless chat variant
sanitizeReplyApi(reply) ==
  IF Falsy(reply) THEN reply
  ELSE IF TestWords(reply, BannedWordsApi, TRUE) THEN bookingPromptApi
  ELSE IF Len(reply) > MaxReplyLen THEN slice0(reply, MaxReplyLen) \o DetailsSuffix
  ELSE trim(reply)

(***************************************************************************)
(* Bounds and inputs                                                       *)
(***************************************************************************)
\* requests received in one run
MaxRequests == 2

\* request slots: the requests that may be in flight together
Slots == {1, 2}

SessionA == <<"A">>

SessionB == <<"B">>

\* crypto.randomBytes(8).toString("hex"): sixteen hex digits
RandomSessionIds ==
  { <<"0","1","2","3","4","5","6","7","8","9","a","b","c","d","e","f">> }

Hi == <<"H","i">>

TopUniUtterance ==
  <<"t","o","p"," ","u","n","i","v","e","r","s","i","t","i","e","s"," ","i","n"," ",
    "c","a","n","a","d","a">>

FundingUtterance == <<"A","n","y"," ","f","u","n","d","i","n","g","?">>

VisaUtterance == <<"v","i","s","a"," ","h","e","l","p">>

BookUtterance == <<"b","o","o","k"," ","a"," ","c","a","l","l">>

GeneralUtterance == <<"f","e","e","s","?">>

HelloVisaUtterance == <<"h","e","l","l","o",","," ","V","I","S","A","?">>

Msg(role, content) == [role |-> role, content |-> content]

\* a null element of the messages array
NullItem == [null |-> TRUE]

\* the messages property of a chat body: absent, not an array, or an array
NoMessages == [truthy |-> FALSE, isArray |-> FALSE, items |-> <<>>]

ObjectMessages == [truthy |-> TRUE, isArray |-> FALSE, items |-> <<>>]

Messages(items) == [truthy |-> TRUE, isArray |-> TRUE, items |-> items]

ChatBody(messages, sessionId) ==
  [kind |-> "chat", messages |-> messages, sessionId |-> sessionId]

PriorTurns ==
  << Msg("system", <<"n","o","t","e">>), Msg("user", Hi),
     Msg("assistant", <<"o","k">>) >>

ChatBodies ==
  { ChatBody(m, SessionA) : m \in {NoMessages, ObjectMessages, Messages(<<>>)} }
    \cup { ChatBody(Messages(<<Msg("user", u)>>), SessionA) :
             u \in {Hi, TopUniUtterance, FundingUtterance, VisaUtterance,
                    BookUtterance, GeneralUtterance} }
    \cup { ChatBody(Messages(<<Msg("user", u)>>), SessionB) :
             u \in {Hi, VisaUtterance, GeneralUtterance} }
    \cup { ChatBody(Messages(<<Msg("user", HelloVisaUtterance)>>), SessionA),
           ChatBody(Messages(PriorTurns \o <<Msg("user", GeneralUtterance)>>), NULL),
           ChatBody(Messages(<<Msg("user", Hi)>>), NULL),
           ChatBody(Messages(<<Msg("user", NULL)>>), SessionB),
           ChatBody(Messages(<<NullItem>>), SessionB) }

Name == <<"R","a","j">>

Email == <<"r","@","x",".","i","n">>

Phone == <<"9","8","7">>

HandoffBody(sessionId, name, email, phone, note) ==
  [kind |-> "handoff", sessionId |-> sessionId, name |-> name, email |-> email,
   phone |-> phone, note |-> note]

HandoffBodies ==
  { HandoffBody(SessionA, Name, Email, Phone, NULL),
    HandoffBody(SessionB, Name, Email, Phone, <<"a","s","a","p">>),
    HandoffBody(SessionA, Name, Email, NULL, NULL),
    HandoffBody(NULL, Name, Email, Phone, NULL) }

\* what sendMessage may resolve to
GeminiResponse(text, outputText, parts) ==
  [text |-> text, outputText |-> outputText, parts |-> parts]

ShortAnswer ==
  <<"F","e","e","s"," ","v","a","r","y"," ","b","y"," ","c","o","u","r","s","e",".">>

BannedAnswer ==
  <<"A","s","k"," ","a"," ","L","a","w","y","e","r"," ","f","i","r","s","t",".">>

GeminiResponses ==
  { NullResponse,
    GeminiResponse(NULL, NULL, << <<"o","k">>, ShortAnswer \o <<"\n">> >>),
    GeminiResponse(BannedAnswer, NULL, <<>>),
    GeminiResponse(<<" ">>, ack \o <<" ">>, <<>>) }

(***************************************************************************)
(* Requests and responses                                                  *)
(***************************************************************************)
NoEntry == [role |-> "none"]

NoResponse == [status |-> 0]

NoIntent == [intent |-> "none"]

Idle ==
  [ pc              |-> "idle",      \* where the handler stands
    io              |-> "none",      \* where its pending file operation stands
    body            |-> [kind |-> "none"],
    sessionId       |-> NULL,
    lastUserMessage |-> NULL,
    firstGreeting   |-> FALSE,       \* history: the first greeting of its session
    invoked         |-> FALSE,       \* sendMessage was called
    history         |-> <<>>,        \* the history given to startChat
    all             |-> <<>>,        \* the array loadJson returned
    entry           |-> NoEntry,     \* what is being appended
    after           |-> NoResponse,  \* what res.json sends once it is saved
    lastAssist      |-> NULL,
    reply           |-> NULL,
    intent          |-> NoIntent,
    res             |-> <<>> ]       \* the responses sent

\* res.json({ message: { role: "assistant", content }, sessionId, meta })
ChatOk(content, sessionId, intent, leadSuggested) ==
  [ status |-> 200, content |-> content, sessionId |-> sessionId,
    meta |-> [intent |-> intent, leadSuggested |-> leadSuggested] ]

BadRequest == [status |-> 400, error |-> "required"]

\* server.js:271
ChatFailed == [status |-> 500, content |-> TroubleReply, error |-> "internal"]

\* server.js:282
HandoffOk == [status |-> 200, ok |-> TRUE]

Respond(q, response) ==
  [q EXCEPT !.pc = "done", !.io = "none", !.all = <<>>,
            !.res = Append(@, response)]

\* a catch that logs the error and sends nothing
Catch_NoResponse(q) == [q EXCEPT !.pc = "done", !.io = "none", !.all = <<>>]

\* the catch of the chat handler (server.js:269-272)
Catch(q) == Respond(q, ChatFailed)

\* the call of appendConversation up to its first await (server.js:48-49)
appendConversation(q, role, content, response) ==
  [q EXCEPT !.pc = "append", !.io = "access", !.all = <<>>,
            !.entry = [sessionId |-> q.sessionId, role |-> role, content |-> content],
            !.after = response]

\* the scan of getLastAssistantReply over the loaded array (server.js:53-56)
getLastAssistantReply(all, sessionId) ==
  LET hits == { i \in 1..Len(all) :
                  all[i].sessionId = sessionId /\ all[i].role = "assistant" }
  IN  IF hits = {} THEN NULL
      ELSE all[CHOOSE i \in hits : \A k \in hits : k <= i].content

\* !messages || !Array.isArray(messages) || messages.length === 0, negated
\* (server.js:194)
ValidMessages_AllowsEmpty(m) == m.truthy /\ m.isArray

ValidMessages(m) == m.truthy /\ m.isArray /\ Len(m.items) # 0

\* messages[messages.length - 1]: undefined when the array is empty
LastItem(items) == IF items = <<>> THEN NullItem ELSE items[Len(items)]

\* String(messages[messages.length - 1].content || "").trim() (server.js:197)
LastUserMessageOf(items) ==
  LET last == LastItem(items)
  IN  IF Falsy(last.content) THEN <<>> ELSE trim(last.content)

\* messages.slice(0, -1).map(...) (server.js:238); String(null) is "null"
HistoryOf(items) ==
  [ i \in 1..(Len(items) - 1) |->
      [ role |-> IF items[i].role = "assistant" THEN "model" ELSE "user",
        text |-> IF items[i].content = NULL THEN <<"n","u","l","l">>
                 ELSE items[i].content ] ]

\* the canned route an utterance takes, if any: the reply and the meta of
\* its response (server.js:211-235)
Canned(reply, intent, leadSuggested) ==
  [matched |-> TRUE, reply |-> reply, intent |-> intent, leadSuggested |-> leadSuggested]

\* the visa route answering with leadSuggested: false
CannedRoute_VisaNoLead(text) ==
  IF isTopUniversities(text)
  THEN Canned(TopUniversitiesReply(text),
              [intent |-> "top_universities", score |-> 100], FALSE)
  ELSE IF isScholarships(text)
  THEN Canned(ScholarshipsReply, [intent |-> "scholarships", score |-> 100], FALSE)
  ELSE IF isVisaProcess(text)
  THEN Canned(VisaReply, [intent |-> "visa", score |-> 100], FALSE)
  ELSE IF isBookConsult(text)
  THEN Canned(bookingPrompt, [intent |-> "lead", score |-> 100], TRUE)
  ELSE [matched |-> FALSE]

\* the book route tested before the visa route
CannedRoute_BookBeforeVisa(text) ==
  IF isTopUniversities(text)
  THEN Canned(TopUniversitiesReply(text),
              [intent |-> "top_universities", score |-> 100], FALSE)
  ELSE IF isScholarships(text)
  THEN Canned(ScholarshipsReply, [intent |-> "scholarships", score |-> 100], FALSE)
  ELSE IF isBookConsult(text)
  THEN Canned(bookingPrompt, [intent |-> "lead", score |-> 100], TRUE)
  ELSE IF isVisaProcess(text)
  THEN Canned(VisaReply, [intent |-> "visa", score |-> 100], TRUE)
  ELSE [matched |-> FALSE]

CannedRoute(text) ==
  IF isTopUniversities(text)
  THEN Canned(TopUniversitiesReply(text),
              [intent |-> "top_universities", score |-> 100], FALSE)
  ELSE IF isScholarships(text)
  THEN Canned(ScholarshipsReply, [intent |-> "scholarships", score |-> 100], FALSE)
  ELSE IF isVisaProcess(text)
  THEN Canned(VisaReply, [intent |-> "visa", score |-> 100], TRUE)
  ELSE IF isBookConsult(text)
  THEN Canned(bookingPrompt, [intent |-> "lead", score |-> 100], TRUE)
  ELSE [matched |-> FALSE]

\* Utterances for the routing on its own.  A top-universities utterance is
\* a trigger, a region name and a tail; named is the region it names.
TopPrefixes ==
  { <<"t","o","p"," ","u","n","i","v","e","r","s","i","t","i","e","s"," ","i","n"," ">>,
    <<"B","e","s","t"," ","u","n","i","v","e","r","s","i","t","i","e","s",":"," ">> }

Regions ==
  { [name |-> <<"c","a","n","a","d","a">>, named |-> "canada"],
    [name |-> <<"u","s","a">>, named |-> "usa"],
    [name |-> <<"t","h","e"," ","U","S">>, named |-> "usa"],
    [name |-> <<"u","k">>, named |-> "uk"],
    [name |-> <<"b","r","i","t","a","i","n">>, named |-> "uk"],
    [name |-> <<"a","u","s","t","r","a","l","i","a">>, named |-> "australia"],
    [name |-> <<"A","u","s","t","r","a","l","i","a">>, named |-> "australia"],
    [name |-> <<"s","i","n","g","a","p","o","r","e">>, named |-> "singapore"],
    [name |-> <<"g","e","r","m","a","n","y">>, named |-> "germany"],
    [name |-> <<"f","r","a","n","c","e">>, named |-> "none"],
    [name |-> <<"a","u","s","t","r","i","a">>, named |-> "none"],
    [name |-> <<>>, named |-> "none"] }

TopSuffixes ==
  { <<>>,
    <<" ","?">>,
    <<" ","f","o","r"," ","b","u","s","i","n","e","s","s">> }

TopInputs ==
  { [raw |-> p \o g.name \o x, named |-> g.named, store |-> <<>>] :
      p \in TopPrefixes, g \in Regions, x \in TopSuffixes }

\* utterances holding triggers of several categories, of one, and of none
PriorityTexts ==
  { <<"h","e","l","l","o",","," ","V","I","S","A","?">>,
    <<"H","i">>,
    <<"h","e","l","l","o"," ","t","h","e","r","e">>,
    <<"v","i","s","a"," ","a","n","d"," ","b","o","o","k"," ","a"," ","c","o","n","s","u","l","t","a","t","i","o","n">>,
    <<"s","c","h","o","l","a","r","s","h","i","p","s"," ","a","t"," ","t","o","p"," ","u","n","i","v","e","r","s","i","t","i","e","s">>,
    <<"f","u","n","d","i","n","g"," ","f","o","r"," ","v","i","s","a">>,
    <<"b","o","o","k"," ","a"," ","s","c","h","o","l","a","r","s","h","i","p">>,
    <<"h","e","y",":"," ","b","e","s","t"," ","f","o","r"," ","g","r","a","n","t","s",","," ","v","i","s","a",","," ","c","o","n","s","u","l","t">>,
    <<"f","e","e","s","?">> }

\* what conversations.json may hold when such an utterance arrives
StoredEntry(sessionId, role, content) ==
  [sessionId |-> sessionId, role |-> role, content |-> content]

PriorityStores ==
  { <<>>,
    << StoredEntry(SessionA, "assistant", VisaReply) >>,
    << StoredEntry(SessionA, "assistant", <<"o","k">>) >>,
    << StoredEntry(SessionB, "assistant", VisaReply) >>,
    << StoredEntry(SessionA, "assistant", short),
       StoredEntry(SessionA, "system", HandoffPrefix) >> }

PriorityInputs ==
  { [raw |-> t, named |-> "none", store |-> st] :
      t \in PriorityTexts, st \in PriorityStores }

RouteInputs == TopInputs \cup PriorityInputs

\* The pure functions above, tabulated once over the texts of the inputs.
Utterances ==
  { LastUserMessageOf(b.messages.items) :
      b \in { c \in ChatBodies : LastItem(c.messages.items) # NullItem } }
    \cup { LastUserMessageOf(<< Msg("user", i.raw) >>) : i \in RouteInputs }

GreetingOf == [t \in Utterances |-> isGreeting(t)]

CannedRouteOf == [t \in Utterances |-> CannedRoute(t)]

DetectIntentOf == [t \in Utterances |-> detectIntent(t)]

\* /globaltree/i.test(content) (server.js:202)
OnBrand(content) == TestLiteral(content, globaltree, TRUE)

CannedReplies == {short} \cup { CannedRouteOf[t].reply : t \in { u \in Utterances : CannedRouteOf[u].matched } }

OnBrandOf == [c \in CannedReplies |-> OnBrand(c)]

\* extraction and sanitising of a response (server.js:243-244)
SanitizedReply(response) ==
  LET extracted == extractTextFromGeminiResponse(response)
  IN  sanitizeReply(IF Falsy(extracted) THEN <<>> ELSE extracted)

SanitizedReplyOf == [response \in GeminiResponses |-> SanitizedReply(response)]

\* canned routing and the call of the generative client (server.js:210-240)
Route(q) ==
  LET c == CannedRouteOf[q.lastUserMessage] IN
  IF c.matched
  THEN appendConversation(q, "assistant", c.reply,
         ChatOk(c.reply, q.sessionId, c.intent, c.leadSuggested))
  ELSE [q EXCEPT !.pc = "gemini", !.io = "none", !.invoked = TRUE,
                 !.history = HistoryOf(q.body.messages.items)]

\* the already-greeted check once the store is read (server.js:201-208)
AfterGreetLookup(q, all) ==
  LET lastAssist == getLastAssistantReply(all, q.sessionId)
      p          == [q EXCEPT !.lastAssist = lastAssist]
  IN  IF ~Falsy(lastAssist)
         /\ (IF lastAssist \in CannedReplies THEN OnBrandOf[lastAssist]
             ELSE OnBrand(lastAssist))
      THEN appendConversation(p, "assistant", short,
             ChatOk(short, q.sessionId, [intent |-> "greeting"], FALSE))
      ELSE Route(p)

\* The identifiers server.js binds at module level: its imports (lines 2-10)
\* and its const and function declarations.  detectIntent, which line 247
\* calls, is not among them: evaluating it throws a ReferenceError.
ServerScope ==
  { "express", "path", "fs", "bodyParser", "cors", "fileURLToPath",
    "GoogleGenerativeAI", "crypto", "__filename", "__dirname", "app", "PORT",
    "LEADS_FILE", "CONV_FILE", "GEMINI_API_KEY", "RELIABLE_MODEL", "ai",
    "systemInstruction",
    "ensureFile", "loadJson", "saveJson", "saveLead", "appendConversation",
    "getLastAssistantReply", "isGreeting", "isTopUniversities", "isScholarships",
    "isVisaProcess", "isBookConsult", "detectCountry", "CANNED", "findFirstText",
    "extractTextFromGeminiResponse", "sanitizeReply" }

LeadScore == 80

FieldLines == 6

\* the lead override (server.js:248-255)
LeadOverride(reply, intent) ==
  IF intent.intent = "lead" \/ (intent.intent = "visa" /\ intent.score >= LeadScore)
  THEN LET lower == toLowerCase(reply)
           asksForFields == /\ includes(lower, <<"n","a","m","e">>)
                            /\ includes(lower, <<"e","m","a","i","l">>)
                            /\ includes(lower, <<"p","h","o","n","e">>)
       IN  IF ~asksForFields THEN bookingPrompt
           ELSE join(slice0(split(reply), FieldLines)) \o <<"\n","\n">> \o bookingPrompt
  ELSE reply

\* from the resolved sendMessage to the next await (server.js:243-258)
AfterGemini(q, response) ==
  LET reply == SanitizedReplyOf[response]
      p     == [q EXCEPT !.reply = reply]
  IN  IF "detectIntent" \notin ServerScope THEN Catch(p)
      ELSE LET intent == DetectIntentOf[q.lastUserMessage] IN
           [p EXCEPT !.intent = intent, !.reply = LeadOverride(reply, intent),
                     !.pc = "dedupLookup", !.io = "access"]

\* duplicate suppression once the store is read (server.js:258-267)
AfterDedupLookup(q, all) ==
  LET lastAssist == getLastAssistantReply(all, q.sessionId)
      p          == [q EXCEPT !.lastAssist = lastAssist]
  IN  IF ~Falsy(lastAssist) /\ trim(lastAssist) = trim(q.reply)
      THEN appendConversation(p, "assistant", ack,
             ChatOk(ack, q.sessionId, q.intent, q.intent.intent = "lead"))
      ELSE appendConversation(p, "assistant", q.reply,
             ChatOk(q.reply, q.sessionId, q.intent,
                    q.intent.intent = "lead" \/ q.intent.intent = "visa"))

\* what the handler does with the array loadJson resolved to
AfterLoad(q, all) ==
  CASE q.pc = "greetLookup" -> AfterGreetLookup(q, all)
    [] q.pc = "dedupLookup" -> AfterDedupLookup(q, all)
    [] OTHER                -> [q EXCEPT !.all = Append(all, q.entry), !.io = "open"]

\* what the handler does once saveJson resolved (to true or to false)
AfterSave(q) ==
  IF q.pc = "saveLead"
  THEN appendConversation(q, "system",
         HandoffPrefix \o q.body.name \o <<" ">> \o q.body.email \o <<" ">> \o q.body.phone,
         HandoffOk)
  ELSE Respond(q, q.after)

\* the file a pending operation is on
FileOf(q) == IF q.pc = "saveLead" THEN "leads" ELSE "conv"

(***************************************************************************)
(* Actions                                                                 *)
(***************************************************************************)
Init ==
  /\ req = [r \in Slots |-> Idle]
  /\ fs = [ conv  |-> [exists |-> FALSE, data |-> <<>>],
            leads |-> [exists |-> FALSE, data |-> <<>>] ]
  /\ geminiCalls = 0
  /\ intact = <<>>
  /\ started = 0
  /\ greeted = {}
  /\ pure = [stage |-> "off"]

Free(r) == req[r].pc \in {"idle", "done"} /\ started < MaxRequests

\* POST /api/chat up to its first await (server.js:191-240)
ReceiveChat(r) ==
  /\ Free(r)
  /\ \E b \in ChatBodies, rnd \in RandomSessionIds :
       LET m    == b.messages
           q0   == [Idle EXCEPT !.body = b]
           sid  == IF Falsy(b.sessionId) THEN rnd ELSE b.sessionId
           q1   == [q0 EXCEPT !.sessionId = sid]
           text == LastUserMessageOf(m.items)
           q2   == [q1 EXCEPT !.lastUserMessage = text]
       IN  IF ~ValidMessages(m)
           THEN req' = [req EXCEPT ![r] = Respond(q0, BadRequest)]
                /\ UNCHANGED greeted
           ELSE IF LastItem(m.items) = NullItem
           THEN req' = [req EXCEPT ![r] = Catch(q1)]
                /\ UNCHANGED greeted
           ELSE IF GreetingOf[text]
           THEN req' = [req EXCEPT ![r] =
                          [q2 EXCEPT !.pc = "greetLookup", !.io = "access",
                                     !.firstGreeting = sid \notin greeted]]
                /\ greeted' = greeted \cup {sid}
           ELSE req' = [req EXCEPT ![r] = Route(q2)]
                /\ UNCHANGED greeted
  /\ geminiCalls' = geminiCalls + (IF req'[r].pc = "gemini" THEN 1 ELSE 0)
  /\ started' = started + 1
  /\ UNCHANGED <<fs, intact, pure>>

\* POST /api/handoff up to its first await (server.js:276-280)
ReceiveHandoff(r) ==
  /\ Free(r)
  /\ \E b \in HandoffBodies :
       LET q0 == [Idle EXCEPT !.body = b, !.sessionId = b.sessionId] IN
       req' = [req EXCEPT ![r] =
                 IF Falsy(b.sessionId) \/ Falsy(b.name) \/ Falsy(b.email) \/ Falsy(b.phone)
                 THEN Respond(q0, BadRequest)
                 ELSE [q0 EXCEPT !.pc = "saveLead", !.io = "access",
                         !.entry =
                           [ name |-> b.name, email |-> b.email, phone |-> b.phone,
                             note |-> IF Falsy(b.note)
                                      THEN <<"H","a","n","d","o","f","f"," ","f","r","o","m"," ",
                                             "s","e","s","s","i","o","n"," ">> \o b.sessionId
                                      ELSE b.note,
                             source |-> "widget-handoff" ]]]
  /\ started' = started + 1
  /\ UNCHANGED <<fs, geminiCalls, intact, greeted, pure>>

\* ensureFile: fs.access resolves or rejects (server.js:37)
FsAccess(r) ==
  /\ req[r].io = "access"
  /\ req' = [req EXCEPT ![r].io =
               IF fs[FileOf(req[r])].exists THEN "read" ELSE "ensureOpen"]
  /\ UNCHANGED <<fs, geminiCalls, intact, started, greeted, pure>>

\* ensureFile: fs.writeFile(file, "[]") opens the file, creating or truncating it
EnsureOpen(r) ==
  /\ req[r].io = "ensureOpen"
  /\ fs' = [fs EXCEPT ![FileOf(req[r])] = [exists |-> TRUE, data |-> <<>>]]
  /\ req' = [req EXCEPT ![r].io = "ensureWrite"]
  /\ UNCHANGED <<geminiCalls, intact, started, greeted, pure>>

\* ensureFile: fs.writeFile(file, "[]") writes and resolves
EnsureWrite(r) ==
  /\ req[r].io = "ensureWrite"
  /\ fs' = [fs EXCEPT ![FileOf(req[r])] = [exists |-> TRUE, data |-> <<>>]]
  /\ intact' = IF FileOf(req[r]) = "conv" THEN <<>> ELSE intact
  /\ req' = [req EXCEPT ![r].io = "read"]
  /\ UNCHANGED <<geminiCalls, started, greeted, pure>>

\* loadJson: fs.readFile resolves and the text parses (server.js:40)
FsRead(r) ==
  /\ req[r].io = "read"
  /\ req' = [req EXCEPT ![r] = AfterLoad(req[r], fs[FileOf(req[r])].data)]
  /\ geminiCalls' = geminiCalls + (IF req'[r].pc = "gemini" THEN 1 ELSE 0)
  /\ UNCHANGED <<fs, intact, started, greeted, pure>>

\* loadJson: fs.readFile rejects; the catch returns [] (server.js:40)
ReadFail(r) ==
  /\ req[r].io = "read"
  /\ req' = [req EXCEPT ![r] = AfterLoad(req[r], <<>>)]
  /\ geminiCalls' = geminiCalls + (IF req'[r].pc = "gemini" THEN 1 ELSE 0)
  /\ UNCHANGED <<fs, intact, started, greeted, pure>>

\* saveJson: fs.writeFile opens the file, truncating it (server.js:43)
WriteOpen(r) ==
  /\ req[r].io = "open"
  /\ fs' = [fs EXCEPT ![FileOf(req[r])] = [exists |-> TRUE, data |-> <<>>]]
  /\ req' = [req EXCEPT ![r].io = "write"]
  /\ UNCHANGED <<geminiCalls, intact, started, greeted, pure>>

\* saveJson: fs.writeFile writes the array and resolves; saveJson returns true
WriteData(r) ==
  /\ req[r].io = "write"
  /\ fs' = [fs EXCEPT ![FileOf(req[r])] = [exists |-> TRUE, data |-> req[r].all]]
  /\ intact' = IF FileOf(req[r]) = "conv" THEN req[r].all ELSE intact
  /\ req' = [req EXCEPT ![r] = AfterSave(req[r])]
  /\ UNCHANGED <<geminiCalls, started, greeted, pure>>

\* saveJson: fs.writeFile rejects on open; the catch returns false
WriteFail(r) ==
  /\ req[r].io = "open"
  /\ req' = [req EXCEPT ![r] = AfterSave(req[r])]
  /\ UNCHANGED <<fs, geminiCalls, intact, started, greeted, pure>>

\* sendMessage resolves (server.js:240-258)
GeminiReturn(r) ==
  /\ req[r].pc = "gemini"
  /\ \E response \in GeminiResponses :
       req' = [req EXCEPT ![r] = AfterGemini(req[r], response)]
  /\ UNCHANGED <<fs, geminiCalls, intact, started, greeted, pure>>

\* sendMessage rejects (server.js:240, 269-272)
GeminiThrow(r) ==
  /\ req[r].pc = "gemini"
  /\ req' = [req EXCEPT ![r] = Catch(req[r])]
  /\ UNCHANGED <<fs, geminiCalls, intact, started, greeted, pure>>

Next ==
  \E r \in Slots :
    \/ ReceiveChat(r)
    \/ ReceiveHandoff(r)
    \/ FsAccess(r)
    \/ EnsureOpen(r)
    \/ EnsureWrite(r)
    \/ FsRead(r)
    \/ ReadFail(r)
    \/ WriteOpen(r)
    \/ WriteData(r)
    \/ WriteFail(r)
    \/ GeminiReturn(r)
    \/ GeminiThrow(r)

Spec == Init /\ [][Next]_vars

(***************************************************************************)
(* The sanitiser on its own: an input is drawn, sanitised by both          *)
(* variants, and the server's output is sanitised once more.               *)
(***************************************************************************)
Rep(c, n) == [i \in 1..n |-> c]

SanHeads ==
  { <<>>,
    <<"m","e","d","i","c","a","l"," ">>,
    <<"I","l","l","e","g","a","l"," ">>,
    <<"s","e","e"," ","D","O","C","T","O","R","S"," ">>,
    <<"B","u","s","i","n","e","s","s"," ","S","t","r","a","t","e","g","y",":"," ">>,
    <<"t","h","e","r","a","p","y","_","1"," ">>,
    <<" ","L","a","w","y","e","r",".","\n">> }

SanTails ==
  { <<"f","i","n","e","."," ">>,
    Rep("a", 701),
    Rep("a", 650) \o <<"\n">> \o Rep("b", 10) \o Rep("\n", 60),
    Rep("a", 100) \o <<"\n">> \o Rep("b", 100) \o <<"\n","\n">> \o Rep("c", 100) \o <<"\n">>
      \o Rep("d", 100) \o <<"\n">> \o Rep("e", 400),
    Rep("a", 680) \o <<" ","m","e","d","i","c","a","l","l","y"," ","f","i","n","e">>,
    Rep("a", 690) \o <<" "," "," ">> \o Rep("b", 20) }

SanInputs == { h \o t : h \in SanHeads, t \in SanTails }

SanInit ==
  /\ req = [r \in Slots |-> Idle]
  /\ fs = [ conv  |-> [exists |-> FALSE, data |-> <<>>],
            leads |-> [exists |-> FALSE, data |-> <<>>] ]
  /\ geminiCalls = 0
  /\ intact = <<>>
  /\ started = 0
  /\ greeted = {}
  /\ \E raw \in SanInputs : pure = [stage |-> "input", raw |-> raw]

\* reply = sanitizeReply(reply), in server.js and in the serverless variant
Sanitize ==
  /\ pure.stage = "input"
  /\ pure' = [ stage |-> "once", raw |-> pure.raw,
               out |-> sanitizeReply(pure.raw), outApi |-> sanitizeReplyApi(pure.raw) ]
  /\ UNCHANGED <<req, fs, geminiCalls, intact, started, greeted>>

\* the output sanitised again
SanitizeAgain ==
  /\ pure.stage = "once"
  /\ pure' = [ stage |-> "twice", raw |-> pure.raw, out |-> pure.out,
               outApi |-> pure.outApi, again |-> sanitizeReply(pure.out) ]
  /\ UNCHANGED <<req, fs, geminiCalls, intact, started, greeted>>

SanNext == Sanitize \/ SanitizeAgain

SanSpec == SanInit /\ [][SanNext]_vars


(***************************************************************************)
(* The routing on its own: an utterance of session A arrives while the     *)
(* store holds some entries, and the handler runs up to the point where    *)
(* its reply is decided, reading the store as it is.                       *)
(***************************************************************************)
RouteInit ==
  /\ req = [r \in Slots |-> Idle]
  /\ fs = [ conv  |-> [exists |-> FALSE, data |-> <<>>],
            leads |-> [exists |-> FALSE, data |-> <<>>] ]
  /\ geminiCalls = 0
  /\ intact = <<>>
  /\ started = 0
  /\ greeted = {}
  /\ \E i \in RouteInputs :
       pure = [stage |-> "input", raw |-> i.raw, named |-> i.named, store |-> i.store]

\* server.js:196-240 with the store read in one piece
Resolve ==
  /\ pure.stage = "input"
  /\ LET items == << Msg("user", pure.raw) >>
         text  == LastUserMessageOf(items)
         q     == [Idle EXCEPT !.body = ChatBody(Messages(items), SessionA),
                               !.sessionId = SessionA, !.lastUserMessage = text]
     IN  pure' = [ stage |-> "resolved", raw |-> pure.raw, named |-> pure.named,
                   store |-> pure.store,
                   q |-> IF GreetingOf[text] THEN AfterGreetLookup(q, pure.store)
                         ELSE Route(q) ]
  /\ UNCHANGED <<req, fs, geminiCalls, intact, started, greeted>>

RouteNext == Resolve

RouteSpec == RouteInit /\ [][RouteNext]_vars

(***************************************************************************)
(* Properties                                                              *)
(***************************************************************************)
IsPrefix(a, b) == Len(a) <= Len(b) /\ SubSeq(b, 1, Len(a)) = a

\* the entries of one session, in file order
EntriesOf(log, sessionId) == SelectSeq(log, LAMBDA e : e.sessionId = sessionId)

SessionIds == {SessionA, SessionB} \cup RandomSessionIds

IsChat(q) == q.body.kind = "chat"

\* a chat request that passed validation and has a last message
HasUtterance(q) == IsChat(q) /\ q.lastUserMessage # NULL

Done(q) == q.pc = "done"

\* the inputs whose last message holds a trigger of a canned category
CannedUtterances ==
  { TopUniUtterance, FundingUtterance, VisaUtterance, BookUtterance, HelloVisaUtterance }

\* C1: a chat request whose last message matches a top_universities,
\* scholarships, visa_process or book_consultation trigger never invokes the
\* generative client: no step of such a request changes the call counter,
\* whatever the store holds and whatever other requests did.
C1_CannedNeverInvokesGemini ==
  [][ \A r \in Slots :
        (req'[r] # req[r] /\ HasUtterance(req'[r])
           /\ req'[r].lastUserMessage \in CannedUtterances)
        => (geminiCalls' = geminiCalls /\ ~req'[r].invoked) ]_vars

\* a canned request answered with 200 after another request did call the client
C1_Witness ==
  \E r \in Slots :
    /\ Done(req[r]) /\ HasUtterance(req[r])
    /\ req[r].lastUserMessage \in CannedUtterances
    /\ req[r].res[1].status = 200
    /\ geminiCalls >= 1

\* C2: on the generative path, once the client has answered, the request is
\* answered 200 with the acknowledgment sentence when the session's last
\* assistant reply equals the candidate after trimming, with the candidate
\* otherwise, and that same text is what it appended.
C2_DuplicateSuppressed ==
  \A r \in Slots :
    (Done(req[r]) /\ HasUtterance(req[r]) /\ req[r].reply # NULL)
    => /\ Len(req[r].res) = 1
       /\ req[r].res[1].status = 200
       /\ req[r].entry.role = "assistant"
       /\ req[r].res[1].content = req[r].entry.content
       /\ req[r].res[1].content =
            IF ~Falsy(req[r].lastAssist) /\ trim(req[r].lastAssist) = trim(req[r].reply)
            THEN ack ELSE req[r].reply

\* C3: the first greeting of a session is answered with a greeting, not
\* with the "already greeted" acknowledgment, which is kept for a second
\* greeting.
C3_FirstGreetingIsNotAcknowledged ==
  \A r \in Slots :
    (Done(req[r]) /\ HasUtterance(req[r]) /\ req[r].firstGreeting
       /\ req[r].res[1].status = 200)
    => req[r].res[1].content # short

\* the messages fields that fail validation
InvalidMessages == { NoMessages, ObjectMessages, Messages(<<>>) }

\* C4: a chat request whose messages field is missing, not a list or an
\* empty list is answered 400 in its first step and is then over: that step
\* leaves both files and the call counter alone and starts no file operation.
C4_InvalidTouchesNothing ==
  [][ \A r \in Slots :
        (req'[r] # req[r] /\ IsChat(req'[r])
           /\ req'[r].body.messages \in InvalidMessages)
        => /\ req'[r].res = << BadRequest >>
           /\ Done(req'[r]) /\ req'[r].io = "none" /\ ~req'[r].invoked
           /\ fs' = fs /\ geminiCalls' = geminiCalls /\ intact' = intact ]_vars

\* an empty message list refused while the store holds entries
C4_Witness ==
  \E r \in Slots :
    /\ Done(req[r]) /\ IsChat(req[r])
    /\ req[r].body.messages = Messages(<<>>)
    /\ req[r].res = << BadRequest >>
    /\ fs.conv.data # <<>>

\* a step of slot r is possible
CanStep(r) ==
  ENABLED ( \/ FsAccess(r) \/ EnsureOpen(r) \/ EnsureWrite(r) \/ FsRead(r)
            \/ WriteOpen(r) \/ WriteData(r) \/ GeminiReturn(r) \/ GeminiThrow(r) )

\* C5: a chat request that passed validation never has two responses, is
\* never stuck before its response, and is over with exactly one; when its
\* last message is null or the generative client rejected or the handler
\* threw after the client answered, that response is the 500 with the fixed
\* "trouble connecting" reply; a 500 is never anything else.
C5_ExactlyOneResponse ==
  \A r \in Slots :
    (IsChat(req[r]) /\ ValidMessages(req[r].body.messages))
    => /\ Len(req[r].res) <= 1
       /\ ~Done(req[r]) => (req[r].res = <<>> /\ CanStep(r))
       /\ Done(req[r]) =>
            /\ Len(req[r].res) = 1
            /\ req[r].res[1].status \in {200, 500}
            /\ req[r].res[1].status = 500 => req[r].res[1] = ChatFailed
            /\ LastItem(req[r].body.messages.items) = NullItem
                 => req[r].res[1].status = 500
            /\ (req[r].invoked /\ req[r].after = NoResponse)
                 => req[r].res[1].status = 500

\* the generative client was invoked, the handler threw, and the one response is the 500
C5_Witness ==
  \E r \in Slots :
    /\ Done(req[r]) /\ HasUtterance(req[r]) /\ req[r].invoked
    /\ req[r].res = << ChatFailed >>

\* C6: in every 200 response of the chat endpoint, meta.leadSuggested is true
\* exactly when meta.intent.intent is lead or visa.
C6_LeadSuggestedIffLeadOrVisa ==
  \A r \in Slots :
    (Done(req[r]) /\ IsChat(req[r]) /\ req[r].res[1].status = 200)
    => (req[r].res[1].meta.leadSuggested
          <=> req[r].res[1].meta.intent.intent \in {"lead", "visa"})

\* a visa reply and a greeting acknowledgment, both answered 200
C6_Witness ==
  \E r, t \in Slots :
    /\ Done(req[r]) /\ IsChat(req[r]) /\ req[r].res[1].status = 200
    /\ req[r].res[1].meta.intent.intent = "visa"
    /\ req[r].res[1].meta.leadSuggested
    /\ Done(req[t]) /\ IsChat(req[t]) /\ req[t].res[1].status = 200
    /\ req[t].res[1].meta.intent.intent = "greeting"
    /\ ~req[t].res[1].meta.leadSuggested

\* C7: the conversation log is append-only: what conversations.json held
\* after one completed write is a prefix of what it holds after every later
\* completed write.
C7_AppendOnly == [][ IsPrefix(intact, intact') ]_vars

\* C8: requests of different sessions are independent: a step of a request
\* of one session leaves the entries recorded under every other session in
\* place (it may add none, and removes or changes none).
C8_SessionsIndependent ==
  [][ \A r \in Slots : \A s \in SessionIds :
        (req'[r] # req[r] /\ req[r].sessionId # s)
        => EntriesOf(intact', s) = EntriesOf(intact, s) ]_vars

\* the banned topic terms a reply may hold
ContainsBannedTerm(reply) == \E w \in BannedWords : TestLiteral(reply, w, TRUE)

\* C9: a raw reply that holds a banned topic term anywhere, in any letter
\* case, is sanitised to exactly the booking prompt of the book_consultation
\* route, by the server's sanitiser and by the serverless variant's.
C9_BannedTermYieldsBookingPrompt ==
  (pure.stage \in {"once", "twice"} /\ ContainsBannedTerm(pure.raw))
  => (pure.out = bookingPrompt /\ pure.outApi = bookingPrompt)

\* C10: sanitising a sanitised reply changes nothing.
C10_SanitizeIdempotent ==
  pure.stage = "twice" => pure.again = pure.out

\* the handoff requests
IsHandoff(q) == q.body.kind = "handoff"

\* a handoff body without one of sessionId, name, email, phone
MissingField(b) ==
  Falsy(b.sessionId) \/ Falsy(b.name) \/ Falsy(b.email) \/ Falsy(b.phone)

\* C11: a handoff request without one of sessionId, name, email, phone is
\* answered 400 in its first step, which writes nothing; and when the write
\* of the lead fails (saveJson's writeFile rejects, leads.json is left as it
\* was), the request is answered 500 and never 200 with ok: true.
C11_HandoffStatusReflectsOutcome ==
  [][ \A r \in Slots :
        (IsHandoff(req'[r]) /\ req'[r] # req[r])
        => /\ MissingField(req'[r].body)
                => /\ req'[r].res = << BadRequest >>
                   /\ fs' = fs /\ intact' = intact
           /\ (req[r].pc = "saveLead" /\ req[r].io = "open" /\ req'[r].io # "write")
                => /\ Done(req'[r])
                   /\ Len(req'[r].res) = 1
                   /\ req'[r].res[1].status = 500 ]_vars

\* the messages of a request before its last one that are user or assistant
\* messages, in their order
ConversationalTurns(items) ==
  SelectSeq(SubSeq(items, 1, Len(items) - 1),
            LAMBDA m : m.role \in {"user", "assistant"})

\* C12: the history given to the generative client holds the user and
\* assistant messages before the last one, in their order and with their
\* text, a user message as a user turn and an assistant message as a model
\* turn; a system message is no turn of it.
C12_HistoryHasNoSystemTurn ==
  \A r \in Slots :
    (IsChat(req[r]) /\ req[r].invoked)
    => LET turns == ConversationalTurns(req[r].body.messages.items)
           h     == req[r].history
       IN  /\ Len(h) = Len(turns)
           /\ \A i \in 1..Len(h) :
                /\ h[i].text = turns[i].content
                /\ h[i].role = IF turns[i].role = "assistant" THEN "model" ELSE "user"
\* the regions that have a list of their own
SupportedRegions == {"canada", "usa", "uk", "australia"}

\* C13: an utterance resolved as top_universities is answered with the list
\* of the region it names when that region is canada, usa, uk or australia,
\* and with the global list when it names another region or none; the list
\* has at most 6 lines, each a bullet, and the call to action follows it.
C13_ListOfNamedRegion ==
  (pure.stage = "resolved" /\ pure.q.pc = "append"
     /\ pure.q.after.meta.intent.intent = "top_universities")
  => LET list == IF pure.named \in SupportedRegions THEN CANNED[pure.named]
                 ELSE CANNED.global_top
     IN  /\ Len(list) <= 6
         /\ \A k \in 1..Len(list) : list[k][1] = "BULLET"
         /\ pure.q.entry.content = join(list) \o TopUniversitiesCta
         /\ pure.q.after.content = pure.q.entry.content
\* the order of the generative path once the client was invoked:
\* GenerativeInvoked, then Sanitized and DedupChecked, Persisted, Responded
LifecycleSteps ==
  { <<"gemini", "dedupLookup">>, <<"dedupLookup", "dedupLookup">>,
    <<"dedupLookup", "append">>, <<"append", "append">>, <<"append", "done">> }

\* C14: a chat request whose last message matches no canned intent and whose
\* call of the generative client returned a response moves on in the order
\* invoked, sanitised, duplicate-checked, persisted, responded; it responds
\* once, with status 200, after its one assistant entry was handed to the
\* store, and the reply it returns is the content of that entry.
C14_GenerativeLifecycle ==
  [][ \A r \in Slots :
        (req[r].pc # "done" /\ req'[r] # req[r] /\ req[r].invoked
           /\ req'[r].reply # NULL)
        => /\ <<req[r].pc, req'[r].pc>> \in LifecycleSteps
           /\ req'[r].pc = "done"
                => /\ Len(req'[r].res) = 1
                   /\ req'[r].res[1].status = 200
                   /\ req[r].entry.role = "assistant"
                   /\ req'[r].res[1].content = req[r].entry.content ]_vars
\* the categories in their priority, by the intent names of the responses
Priority == << "greeting", "top_universities", "scholarships", "visa", "lead" >>

\* the categories whose trigger the text holds
Triggered(text) ==
  { c \in Range(Priority) :
      \/ c = "greeting" /\ isGreeting(text)
      \/ c = "top_universities" /\ isTopUniversities(text)
      \/ c = "scholarships" /\ isScholarships(text)
      \/ c = "visa" /\ isVisaProcess(text)
      \/ c = "lead" /\ isBookConsult(text) }

\* the category of cs highest in the priority; the generative fallback if none
Highest(cs) ==
  IF cs = {} THEN "generative"
  ELSE Priority[CHOOSE i \in 1..Len(Priority) :
                  Priority[i] \in cs /\ \A k \in 1..(i - 1) : Priority[k] \notin cs]

\* what a routed request was resolved to
Resolved(q) == IF q.pc = "gemini" THEN "generative" ELSE q.after.meta.intent.intent

\* the fixed reply of a category; a top_universities reply ends with its
\* call to action
ReplyFits(c, q) ==
  CASE c = "generative"       -> q.invoked /\ q.entry = NoEntry
    [] c = "greeting"         -> q.entry.content = short /\ q.after.content = short
    [] c = "scholarships"     -> q.entry.content = ScholarshipsReply
                                   /\ q.after.content = ScholarshipsReply
    [] c = "visa"             -> q.entry.content = VisaReply /\ q.after.content = VisaReply
    [] c = "lead"             -> q.entry.content = bookingPrompt
                                   /\ q.after.content = bookingPrompt
    [] c = "top_universities" ->
         /\ q.after.content = q.entry.content
         /\ Len(q.entry.content) > Len(TopUniversitiesCta)
         /\ SubSeq(q.entry.content,
                   Len(q.entry.content) - Len(TopUniversitiesCta) + 1,
                   Len(q.entry.content)) = TopUniversitiesCta

\* the text the handler routes
RoutedText == LastUserMessageOf(<< Msg("user", pure.raw) >>)

LastReplyOnBrand ==
  LET mine == SelectSeq(pure.store,
                        LAMBDA e : e.sessionId = SessionA /\ e.role = "assistant")
  IN  mine # <<>> /\ TestLiteral(mine[Len(mine)].content, globaltree, TRUE)

============================================================================
